---- MODULE Spec2Model ----
(***************************************************************************)
(* WelcomeBot (src/main.py): a command line tool that keeps a gallery of   *)
(* reference face images under the directory "db" and asks DeepFace which  *)
(* gallery identity a query image resembles.                               *)
(*                                                                         *)
(* One run of the program is one call of main().  The model keeps the      *)
(* file system across runs and records what the last run printed, whether  *)
(* an exception left main, and how often DeepFace.find was called.         *)
(*                                                                         *)
(* Strings are sequences of one-character strings, so that the path        *)
(* arithmetic of pathlib, os.path and shutil is computed, not assumed.     *)
(* A file-system path is a sequence of components from the root "/".       *)
(* The process runs in the directory /w and tempfile uses /tmp.            *)
(***************************************************************************)
EXTENDS Integers, Sequences, FiniteSets, TLC

VARIABLES fs, run, nruns

vars == <<fs, run, nruns>>

----------------------------------------------------------------------------
(* Bounds of the exploration *)

MaxRuns == 2

MaxRows == 2

----------------------------------------------------------------------------
(* String literals *)

S_db == <<"d","b">>
S_add == <<"a","d","d">>
S_find == <<"f","i","n","d">>
S_prog == <<"m","a","i","n",".","p","y">>
S_http == <<"h","t","t","p",":","/","/">>
S_https == <<"h","t","t","p","s",":","/","/">>
S_jpg == <<".","j","p","g">>
S_tmp == <<"t","m","p">>
S_w == <<"w">>
S_slash == <<"/">>
S_dot == <<".">>
S_dotdot == <<".",".">>
S_empty == <<>>
S_pkl == <<"r",".","p","k","l">>

DB_PATH == S_db

CWD == <<S_w>>

TMPDIR == <<S_tmp>>

----------------------------------------------------------------------------
(* str methods *)

StartsWith(s, pre) ==
  /\ Len(s) >= Len(pre)
  /\ SubSeq(s, 1, Len(pre)) = pre

\* str.rfind(ch), 1-based; 0 when ch does not occur
RECURSIVE RFindFrom(_, _, _)
RFindFrom(s, ch, i) ==
  IF i = 0 THEN 0
  ELSE IF s[i] = ch THEN i
  ELSE RFindFrom(s, ch, i - 1)

RFind(s, ch) == RFindFrom(s, ch, Len(s))

\* str.split("/")
RECURSIVE SplitFrom(_, _, _)
SplitFrom(s, i, cur) ==
  IF i > Len(s) THEN <<cur>>
  ELSE IF s[i] = "/" THEN <<cur>> \o SplitFrom(s, i + 1, <<>>)
  ELSE SplitFrom(s, i + 1, Append(cur, s[i]))

Split(s) == SplitFrom(s, 1, <<>>)

\* "/".join(parts)
RECURSIVE JoinSlash(_)
JoinSlash(parts) ==
  IF parts = <<>> THEN <<>>
  ELSE IF Len(parts) = 1 THEN parts[1]
  ELSE parts[1] \o S_slash \o JoinSlash(Tail(parts))

Digits == <<"0","1","2","3","4","5","6","7","8","9">>

\* str(n) for a non-negative integer, as the f-string formats it
RECURSIVE Dec(_)
Dec(n) ==
  IF n < 10 THEN <<Digits[n + 1]>>
  ELSE Dec(n \div 10) \o <<Digits[(n % 10) + 1]>>

----------------------------------------------------------------------------
(* pathlib.PurePosixPath *)

\* The root of a path string: "//" for exactly two leading slashes, "/"
\* for one or for three and more, "" for a relative path
PathRoot(s) ==
  IF s = <<>> \/ s[1] # "/" THEN <<>>
  ELSE IF Len(s) >= 2 /\ s[2] = "/" /\ (Len(s) = 2 \/ s[3] # "/")
  THEN S_slash \o S_slash
  ELSE S_slash

\* Path(s): "" and "." components are dropped, ".." is kept
ParsePath(s) ==
  [root  |-> PathRoot(s),
   parts |-> SelectSeq(Split(s), LAMBDA c : c # <<>> /\ c # S_dot)]

\* str(path)
PathStr(p) ==
  IF p.root # <<>> THEN p.root \o JoinSlash(p.parts)
  ELSE IF p.parts = <<>> THEN S_dot
  ELSE JoinSlash(p.parts)

\* path / s
PathJoin(p, s) ==
  LET q == ParsePath(s)
  IN IF q.root # <<>> THEN q
     ELSE [root |-> p.root, parts |-> p.parts \o q.parts]

\* path.name
PathName(p) ==
  IF p.parts = <<>> THEN <<>> ELSE p.parts[Len(p.parts)]

\* path.suffix
PathSuffix(p) ==
  LET name == PathName(p)
      i == RFind(name, ".")
  IN IF 1 < i /\ i < Len(name) THEN SubSeq(name, i, Len(name)) ELSE <<>>

\* path.parent
PathParent(p) ==
  IF p.parts = <<>> THEN p
  ELSE [root |-> p.root, parts |-> SubSeq(p.parts, 1, Len(p.parts) - 1)]

----------------------------------------------------------------------------
(* os.path *)

\* os.path.basename(s)
Basename(s) == SubSeq(s, RFind(s, "/") + 1, Len(s))

\* os.path.join(a, b)
OsJoin(a, b) ==
  IF b # <<>> /\ b[1] = "/" THEN b
  ELSE IF a = <<>> \/ a[Len(a)] = "/" THEN a \o b
  ELSE a \o S_slash \o b

----------------------------------------------------------------------------
(* The file system: a function from the paths that exist (the root       *)
(* excluded, it always exists) to nodes.                                 *)

DirNode == [kind |-> "dir", data |-> "-"]

FileNode(d) == [kind |-> "file", data |-> d]

Exists(f, p) == p = <<>> \/ p \in DOMAIN f

IsDir(f, p) == p = <<>> \/ (p \in DOMAIN f /\ f[p].kind = "dir")

IsFile(f, p) == p \in DOMAIN f /\ f[p].kind = "file"

Parent(p) == SubSeq(p, 1, Len(p) - 1)

\* the entries of directory p, as os.listdir and Path.glob('*') list them
Children(f, p) == {q \in DOMAIN f : Len(q) = Len(p) + 1 /\ Parent(q) = p}

Put(f, p, node) == [q \in DOMAIN f \cup {p} |-> IF q = p THEN node ELSE f[q]]

Remove(f, p) == [q \in DOMAIN f \ {p} |-> f[q]]

\* Kernel path resolution of the string s: every component is looked up in
\* a directory that must exist; the last component may be missing.
RECURSIVE Walk(_, _, _, _)
Walk(f, cur, comps, i) ==
  IF i > Len(comps) THEN [err |-> "ok", path |-> cur]
  ELSE IF ~Exists(f, cur) THEN [err |-> "ENOENT", path |-> cur]
  ELSE IF ~IsDir(f, cur) THEN [err |-> "ENOTDIR", path |-> cur]
  ELSE IF comps[i] = <<>> \/ comps[i] = S_dot THEN Walk(f, cur, comps, i + 1)
  ELSE IF comps[i] = S_dotdot
       THEN Walk(f, IF cur = <<>> THEN cur ELSE Parent(cur), comps, i + 1)
  ELSE Walk(f, Append(cur, comps[i]), comps, i + 1)

Resolve(f, s) ==
  IF s = <<>> THEN [err |-> "ENOENT", path |-> <<>>]
  ELSE Walk(f, IF s[1] = "/" THEN <<>> ELSE CWD, Split(s), 1)

ErrnoExc(err) ==
  IF err = "ENOTDIR" THEN "NotADirectoryError" ELSE "FileNotFoundError"

\* os.path.exists(s)
OsExists(f, s) ==
  LET r == Resolve(f, s) IN r.err = "ok" /\ Exists(f, r.path)

\* os.path.isdir(s), Path.is_dir()
OsIsDir(f, s) ==
  LET r == Resolve(f, s) IN r.err = "ok" /\ IsDir(f, r.path)

\* os.listdir(s): the set of entries; raises when s is missing or is not
\* a directory
OsListdir(f, s) ==
  LET r == Resolve(f, s)
  IN IF r.err # "ok" THEN [exc |-> ErrnoExc(r.err), entries |-> {}]
     ELSE IF ~Exists(f, r.path)
     THEN [exc |-> "FileNotFoundError", entries |-> {}]
     ELSE IF ~IsDir(f, r.path)
     THEN [exc |-> "NotADirectoryError", entries |-> {}]
     ELSE [exc |-> "none", entries |-> Children(f, r.path)]

\* list(path.glob('*')): the set of entries; empty when the path is
\* missing or is not a directory
PathGlob(f, p) ==
  LET r == Resolve(f, PathStr(p))
  IN IF r.err = "ok" /\ IsDir(f, r.path) THEN Children(f, r.path) ELSE {}

\* os.mkdir(s)
OsMkdir(f, s) ==
  LET r == Resolve(f, s)
  IN IF r.err # "ok" THEN [exc |-> ErrnoExc(r.err), fs |-> f]
     ELSE IF Exists(f, r.path) THEN [exc |-> "FileExistsError", fs |-> f]
     ELSE [exc |-> "none", fs |-> Put(f, r.path, DirNode)]

\* Path.mkdir(exist_ok=True), parents=False
PathMkdir(f, p) ==
  LET m == OsMkdir(f, PathStr(p))
  IN IF m.exc = "none" \/ m.exc = "FileNotFoundError" THEN m
     ELSE IF OsIsDir(f, PathStr(p)) THEN [exc |-> "none", fs |-> f]
     ELSE m

\* os.unlink(s)
OsUnlink(f, s) ==
  LET r == Resolve(f, s)
  IN IF r.err # "ok" THEN [exc |-> ErrnoExc(r.err), fs |-> f]
     ELSE IF ~Exists(f, r.path) THEN [exc |-> "FileNotFoundError", fs |-> f]
     ELSE IF IsDir(f, r.path) THEN [exc |-> "IsADirectoryError", fs |-> f]
     ELSE [exc |-> "none", fs |-> Remove(f, r.path)]

\* shutil.copy2(src, dst): dst is a Path, src a string.  The bytes of src
\* are written to dst; a dst that is a directory receives basename(src).
Copy2(f, src, dst) ==
  LET d0 == PathStr(dst)
      d  == IF OsIsDir(f, d0) THEN OsJoin(d0, Basename(src)) ELSE d0
      rs == Resolve(f, src)
      rd == Resolve(f, d)
  IN IF /\ rs.err = "ok" /\ rd.err = "ok"
        /\ Exists(f, rs.path) /\ rs.path = rd.path
       THEN [exc |-> "SameFileError", fs |-> f]
     ELSE IF rs.err # "ok" THEN [exc |-> ErrnoExc(rs.err), fs |-> f]
     ELSE IF ~Exists(f, rs.path) THEN [exc |-> "FileNotFoundError", fs |-> f]
     ELSE IF IsDir(f, rs.path) THEN [exc |-> "IsADirectoryError", fs |-> f]
     ELSE IF rd.err # "ok" THEN [exc |-> ErrnoExc(rd.err), fs |-> f]
     ELSE IF IsDir(f, rd.path) THEN [exc |-> "IsADirectoryError", fs |-> f]
     ELSE [exc |-> "none", fs |-> Put(f, rd.path, FileNode(f[rs.path].data))]

\* tempfile.NamedTemporaryFile(delete=False, suffix=suffix): a new file
\* /tmp/tmp<unique><suffix>; the unique part is the number of entries of
\* /tmp, which no existing temporary file carries.
TmpName(f, suffix) ==
  S_slash \o S_tmp \o S_slash \o S_tmp
    \o Dec(Cardinality(Children(f, TMPDIR))) \o suffix

\* open(s, 'wb').write(data) on a path whose directory exists
OsWrite(f, s, data) == Put(f, Resolve(f, s).path, FileNode(data))

----------------------------------------------------------------------------
(* Printed lines and optional values *)

Msg(m, s1, s2, n, e) == [msg |-> m, s1 |-> s1, s2 |-> s2, n |-> n, e |-> e]

M0(m) == Msg(m, <<>>, <<>>, 0, "-")

None == [some |-> FALSE, val |-> <<>>]

Some(s) == [some |-> TRUE, val |-> s]

\* image_path.startswith("http://") or image_path.startswith("https://")
IsUrl(s) == StartsWith(s, S_http) \/ StartsWith(s, S_https)

----------------------------------------------------------------------------
(* get_image_path: the generator up to its yield, and what __exit__ of   *)
(* contextlib's context manager does with the generator afterwards.     *)

\* Variant: the response body is written to the temporary file before the
\* status is checked, so a failed fetch leaves the file behind.
get_image_path_enter_write_first(f, image_path, net) ==
  IF IsUrl(image_path)
  THEN LET o1 == <<Msg("downloading", image_path, <<>>, 0, "-")>>
           sfx == PathSuffix(ParsePath(image_path))
           suffix == IF sfx # <<>> THEN sfx ELSE S_jpg
           tmp_path == TmpName(f, suffix)
       IN IF net.exc # "none"
          THEN [fs |-> OsWrite(f, tmp_path, net.body),
                at |-> "yield_none", local |-> None,
                out |-> o1 \o <<Msg("download_error", <<>>, <<>>, 0, net.exc)>>]
          ELSE [fs |-> OsWrite(f, tmp_path, net.body),
                at |-> "yield_tmp", local |-> Some(tmp_path),
                out |-> o1 \o <<M0("download_complete")>>]
  ELSE [fs |-> f, at |-> "yield_local", local |-> Some(image_path),
        out |-> <<>>]

\* requests.get + raise_for_status: net.exc is "none" on success
get_image_path_enter(f, image_path, net) ==
  IF IsUrl(image_path)
  THEN LET o1 == <<Msg("downloading", image_path, <<>>, 0, "-")>>
       IN IF net.exc # "none"
          THEN [fs |-> f, at |-> "yield_none", local |-> None,
                out |-> o1 \o <<Msg("download_error", <<>>, <<>>, 0, net.exc)>>]
          ELSE LET sfx == PathSuffix(ParsePath(image_path))
                   suffix == IF sfx # <<>> THEN sfx ELSE S_jpg
                   tmp_path == TmpName(f, suffix)
               IN [fs |-> OsWrite(f, tmp_path, net.body),
                   at |-> "yield_tmp", local |-> Some(tmp_path),
                   out |-> o1 \o <<M0("download_complete")>>]
  ELSE [fs |-> f, at |-> "yield_local", local |-> Some(image_path),
        out |-> <<>>]

\* Leaving the with-block.  exc is the exception the block raised, "none"
\* when it ended or returned.  An exception is thrown into the generator
\* at its yield; a generator that yields again makes __exit__ raise
\* RuntimeError("generator didn't stop after throw()").
get_image_path_exit(f, g, exc) ==
  IF g.at = "yield_tmp"
  THEN IF exc = "none"
       THEN LET u == OsUnlink(f, g.local.val)
            IN IF u.exc = "none"
               THEN [fs |-> u.fs, out |-> <<>>, exc |-> "none"]
               ELSE [fs |-> u.fs, exc |-> "RuntimeError",
                     out |-> <<Msg("download_error", <<>>, <<>>, 0, u.exc)>>]
       ELSE [fs |-> f, exc |-> "RuntimeError",
             out |-> <<Msg("download_error", <<>>, <<>>, 0, exc)>>]
  ELSE [fs |-> f, out |-> <<>>, exc |-> exc]

\* The with statement: g is the generator at its yield, b the outcome of
\* the block that ran with g.local as local_path.
WithImage(g, b) ==
  LET x == get_image_path_exit(b.fs, g, b.exc)
  IN [fs |-> x.fs, out |-> g.out \o b.out \o x.out, exc |-> x.exc,
      calls |-> b.calls]

----------------------------------------------------------------------------
(* add_face *)

\* f"{name}_{len(list(person_dir.glob('*'))) + 1}{Path(local_path).suffix}"
RemoteImageName(f, name, person_dir, local_path) ==
  name \o <<"_">>
    \o Dec(Cardinality(PathGlob(f, person_dir)) + 1)
    \o PathSuffix(ParsePath(local_path))

\* Variant: Path(image_path).stem, the name without its extension
LocalImageName_stem(image_path) ==
  LET name == PathName(ParsePath(image_path))
      i == RFind(name, ".")
  IN IF 1 < i /\ i < Len(name) THEN SubSeq(name, 1, i - 1) ELSE name

\* Path(image_path).name
LocalImageName(image_path) == PathName(ParsePath(image_path))

add_face_body(f, name, image_path, local_path) ==
  IF ~local_path.some
  THEN [fs |-> f, out |-> <<>>, exc |-> "none", calls |-> 0]
  ELSE IF ~OsExists(f, local_path.val)
  THEN [fs |-> f, exc |-> "none", calls |-> 0,
        out |-> <<Msg("image_not_found", local_path.val, <<>>, 0, "-")>>]
  ELSE
    LET person_dir == PathJoin(ParsePath(DB_PATH), name)
        m == PathMkdir(f, person_dir)
    IN IF m.exc # "none"
       THEN [fs |-> m.fs, out |-> <<>>, exc |-> m.exc, calls |-> 0]
       ELSE
         LET image_name ==
               IF IsUrl(image_path)
               THEN RemoteImageName(m.fs, name, person_dir, local_path.val)
               ELSE LocalImageName(image_path)
             dest_path == PathJoin(person_dir, image_name)
             c == Copy2(m.fs, local_path.val, dest_path)
         IN IF c.exc # "none"
            THEN [fs |-> c.fs, out |-> <<>>, exc |-> c.exc, calls |-> 0]
            ELSE [fs |-> c.fs, exc |-> "none", calls |-> 0,
                  out |-> <<Msg("added", image_name, name, 0, "-")>>]

add_face(f, name, image_path, net) ==
  LET g == get_image_path_enter(f, image_path, net)
  IN WithImage(g, add_face_body(g.fs, name, image_path, g.local))

----------------------------------------------------------------------------
(* find_face *)

\* f"{distance:.4f}": a distance is counted in 1/1024, so it is a float
\* exactly; the printed value is counted in 1/10000 and is the nearest to
\* distance * 10000 / 1024 = distance * 625 / 64, a tie going to the even
\* neighbour
Fmt4(distance) ==
  LET q == (distance * 625) \div 64
      r == (distance * 625) % 64
  IN IF r > 32 \/ (r = 32 /\ q % 2 = 1) THEN q + 1 ELSE q

\* Path(identity).parent.name
PersonName(identity) == PathName(PathParent(ParsePath(identity)))

MatchLine(row) == Msg("match", PersonName(row.identity), <<>>, Fmt4(row.distance), "-")

\* for idx, row in results[0].iterrows(): print(...)
RECURSIVE MatchLines(_)
MatchLines(table) ==
  IF table = <<>> THEN <<>>
  ELSE <<MatchLine(Head(table))>> \o MatchLines(Tail(table))

\* Variant: the last table is consumed instead of the first
SearchOutput_last_table(df) ==
  IF df.exc # "none"
  THEN <<Msg("search_error", <<>>, <<>>, 0, df.exc)>>
  ELSE IF Len(df.results) > 0 /\ Len(df.results[Len(df.results)]) > 0
  THEN <<Msg("found", <<>>, <<>>, Len(df.results[Len(df.results)]), "-")>>
         \o MatchLines(df.results[Len(df.results)])
  ELSE <<M0("no_matches")>>

\* the try block around DeepFace.find; df is what the collaborator does
SearchOutput(df) ==
  IF df.exc # "none"
  THEN <<Msg("search_error", <<>>, <<>>, 0, df.exc)>>
  ELSE IF Len(df.results) > 0 /\ Len(df.results[1]) > 0
  THEN <<Msg("found", <<>>, <<>>, Len(df.results[1]), "-")>>
         \o MatchLines(df.results[1])
  ELSE <<M0("no_matches")>>

\* What DeepFace.find(db_path=DB_PATH) leaves on disk: it keeps the
\* representations of the gallery images in a pickle file in db_path, and
\* writes that file before it looks at the query image.  df.cache says
\* whether this call wrote it.
CachePath == OsJoin(DB_PATH, S_pkl)

DeepFaceCache(f, df) == IF df.cache THEN OsWrite(f, CachePath, "pkl") ELSE f

\* Variant: the gallery is not checked for entries before the search
find_face_body_no_empty_check(f, image_path, local_path, df) ==
  IF ~local_path.some
  THEN [fs |-> f, out |-> <<>>, exc |-> "none", calls |-> 0]
  ELSE IF ~OsExists(f, local_path.val)
  THEN [fs |-> f, exc |-> "none", calls |-> 0,
        out |-> <<Msg("image_not_found", local_path.val, <<>>, 0, "-")>>]
  ELSE [fs |-> DeepFaceCache(f, df), exc |-> "none", calls |-> 1,
        out |-> <<M0("searching")>> \o SearchOutput(df)]

\* Variant: DeepFace.find is called outside a try block
find_face_body_no_try(f, image_path, local_path, df) ==
  IF ~local_path.some
  THEN [fs |-> f, out |-> <<>>, exc |-> "none", calls |-> 0]
  ELSE IF ~OsExists(f, local_path.val)
  THEN [fs |-> f, exc |-> "none", calls |-> 0,
        out |-> <<Msg("image_not_found", local_path.val, <<>>, 0, "-")>>]
  ELSE IF OsListdir(f, DB_PATH).exc # "none"
  THEN [fs |-> f, exc |-> OsListdir(f, DB_PATH).exc, calls |-> 0, out |-> <<>>]
  ELSE IF OsListdir(f, DB_PATH).entries = {}
  THEN [fs |-> f, exc |-> "none", calls |-> 0, out |-> <<M0("db_empty")>>]
  ELSE IF df.exc # "none"
  THEN [fs |-> DeepFaceCache(f, df), exc |-> df.exc, calls |-> 1,
        out |-> <<M0("searching")>>]
  ELSE [fs |-> DeepFaceCache(f, df), exc |-> "none", calls |-> 1,
        out |-> <<M0("searching")>> \o SearchOutput(df)]

find_face_body(f, image_path, local_path, df) ==
  IF ~local_path.some
  THEN [fs |-> f, out |-> <<>>, exc |-> "none", calls |-> 0]
  ELSE IF ~OsExists(f, local_path.val)
  THEN [fs |-> f, exc |-> "none", calls |-> 0,
        out |-> <<Msg("image_not_found", local_path.val, <<>>, 0, "-")>>]
  ELSE IF OsListdir(f, DB_PATH).exc # "none"
  THEN [fs |-> f, exc |-> OsListdir(f, DB_PATH).exc, calls |-> 0, out |-> <<>>]
  ELSE IF OsListdir(f, DB_PATH).entries = {}
  THEN [fs |-> f, exc |-> "none", calls |-> 0, out |-> <<M0("db_empty")>>]
  ELSE [fs |-> DeepFaceCache(f, df), exc |-> "none", calls |-> 1,
        out |-> <<M0("searching")>> \o SearchOutput(df)]

find_face(f, image_path, net, df) ==
  LET g == get_image_path_enter(f, image_path, net)
  IN WithImage(g, find_face_body(g.fs, image_path, g.local, df))

----------------------------------------------------------------------------
(* main *)

\* Path(DB_PATH).mkdir(exist_ok=True)
setup_db(f) == PathMkdir(f, ParsePath(DB_PATH))

main(f, argv, net, df) ==
  LET s == setup_db(f)
  IN IF s.exc # "none"
     THEN [fs |-> s.fs, out |-> <<>>, exc |-> s.exc, calls |-> 0]
     ELSE IF Len(argv) < 2
     THEN [fs |-> s.fs, out |-> <<M0("usage")>>, exc |-> "none", calls |-> 0]
     ELSE IF argv[2] = S_add
     THEN IF Len(argv) # 4
          THEN [fs |-> s.fs, out |-> <<M0("usage_add")>>, exc |-> "none",
                calls |-> 0]
          ELSE add_face(s.fs, argv[3], argv[4], net)
     ELSE IF argv[2] = S_find
     THEN IF Len(argv) # 3
          THEN [fs |-> s.fs, out |-> <<M0("usage_find")>>, exc |-> "none",
                calls |-> 0]
          ELSE find_face(s.fs, argv[3], net, df)
     ELSE [fs |-> s.fs, exc |-> "none", calls |-> 0,
           out |-> <<Msg("unknown_command", argv[2], <<>>, 0, "-"),
                     M0("available_commands")>>]

----------------------------------------------------------------------------
(* The environment: the files of the working directory, the command      *)
(* lines, the network and the recognition collaborator.                  *)

F_pj == <<"p",".","j">>
F_o == <<"o">>
F_o_pj == <<"o","/","p",".","j">>
F_a2j == <<"a","_","2",".","j">>
F_nope == <<"n","o","p","e">>
F_db_a_pj == <<"d","b","/","a","/","p",".","j">>
U_xj == <<"h","t","t","p",":","/","/","h","/","x",".","j">>
U_x == <<"h","t","t","p","s",":","/","/","h","/","x">>

N_a == <<"a">>
N_ab == <<"a","/","b">>

\* the working directory holds p.j, a_2.j and the directory o with o/p.j
BaseFs ==
  (<<S_tmp>> :> DirNode) @@ (<<S_w>> :> DirNode)
    @@ (<<S_w, F_pj>> :> FileNode("c1"))
    @@ (<<S_w, F_o>> :> DirNode)
    @@ (<<S_w, F_o, F_pj>> :> FileNode("c2"))
    @@ (<<S_w, F_a2j>> :> FileNode("c3"))

DbDir == Append(CWD, DB_PATH)

\* a gallery left by the earlier runs `add a p.j` and `add "" p.j`
UsedFs ==
  BaseFs @@ (DbDir :> DirNode)
    @@ (<<S_w, S_db, N_a>> :> DirNode)
    @@ (<<S_w, S_db, N_a, F_pj>> :> FileNode("c1"))
    @@ (<<S_w, S_db, F_pj>> :> FileNode("c1"))

Names == {N_a, S_empty, S_dot, S_dotdot, N_ab, F_pj}

LocalSources == {F_pj, F_o_pj, F_a2j, F_o, F_nope, F_db_a_pj}

UrlSources == {U_xj, U_x}

Sources == LocalSources \cup UrlSources

\* the arguments of add: every name with a local file and with a URL, and
\* the identity "a" with every source
AddInputs == (Names \X {F_pj, U_xj}) \cup ({N_a} \X Sources)

\* the query images of find: a file, a missing file, a URL
FindSources == {F_pj, F_nope, U_xj}

NetUnused == [exc |-> "unused", body |-> "-"]

NetOk == [exc |-> "none", body |-> "web"]

NetFailures ==
  {[exc |-> e, body |-> "-"] : e \in {"HTTPError", "ConnectionError", "Timeout"}}

NetOutcomes(src) == IF IsUrl(src) THEN {NetOk} \cup NetFailures ELSE {NetUnused}

\* The distance of the i-th best match, in 1/1024: 0.03125, 0.400390625,
\* 0.76953125, ...  Printed, the first is a tie (0.0312), the second is
\* rounded up (0.4004), the third down (0.7695).
RowDistance(i) == 32 + (i - 1) * 378

\* the image files below the gallery root, as DeepFace names them
RECURSIVE RelStr(_, _)
RelStr(p, i) ==
  IF i > Len(p) THEN <<>> ELSE S_slash \o p[i] \o RelStr(p, i + 1)

GalleryFiles(f) ==
  {p \in DOMAIN f : /\ f[p].kind = "file"
                    /\ Len(p) > Len(DbDir)
                    /\ SubSeq(p, 1, Len(DbDir)) = DbDir
                    /\ p # Append(DbDir, S_pkl)}

Identities(f) == {DB_PATH \o RelStr(p, Len(DbDir) + 1) : p \in GalleryFiles(f)}

\* DeepFace.find returns one table per face of the query image; a table
\* has one row per matching gallery image, sorted by distance, best first
Table(ids) == [i \in 1..Len(ids) |-> [identity |-> ids[i], distance |-> RowDistance(i)]]

Tables(f) ==
  {Table(ids) : ids \in
     {q \in UNION {[1..n -> Identities(f)] : n \in 0..MaxRows} :
        \A i, j \in 1..Len(q) : i # j => q[i] # q[j]}}

\* what a second detected face adds: one more table with one row
LaterTables(f) == {t \in Tables(f) : Len(t) = 1}

DfUnused == [exc |-> "unused", results |-> <<>>, cache |-> FALSE]

DfReturns(f) ==
  {[exc |-> "ValueError", results |-> <<>>]}
    \cup {[exc |-> "none", results |-> <<>>]}
    \cup {[exc |-> "none", results |-> <<t>>] : t \in Tables(f)}
    \cup {[exc |-> "none", results |-> <<t, u>>] :
            t \in {x \in Tables(f) : Len(x) <= 1}, u \in LaterTables(f)}

\* every outcome with and without a write of the representations file
DfOutcomes(f) ==
  {[exc |-> d.exc, results |-> d.results, cache |-> c] :
     d \in DfReturns(f), c \in BOOLEAN}

\* sys.argv of a run
ArgvAdd(name, src) == <<S_prog, S_add, name, src>>

ArgvFind(src) == <<S_prog, S_find, src>>

BadArityArgvs ==
  {<<S_prog, S_add>>, <<S_prog, S_add, N_a>>, <<S_prog, S_add, N_a, F_pj, F_pj>>,
   <<S_prog, S_find>>, <<S_prog, S_find, F_pj, F_pj>>}

UnknownArgvs == {<<S_prog, <<"r","m">>, N_a>>, <<S_prog, S_empty>>}

----------------------------------------------------------------------------
(* The state machine: one action is one run of main *)

\* the temporary file the resolver of this run created, if any
TmpOfRun(f, argv, net) ==
  IF Len(argv) >= 2 /\ ((argv[2] = S_add /\ Len(argv) = 4)
                        \/ (argv[2] = S_find /\ Len(argv) = 3))
     /\ setup_db(f).exc = "none"
  THEN LET g == get_image_path_enter(setup_db(f).fs, argv[Len(argv)], net)
       IN IF g.at = "yield_tmp" THEN g.local ELSE None
  ELSE None

NoRun ==
  [cmd |-> "none", argv |-> <<>>, net |-> NetUnused, df |-> DfUnused,
   out |-> <<>>, exc |-> "none", calls |-> 0, tmp |-> None]

Init ==
  /\ fs \in {BaseFs, UsedFs}
  /\ run = NoRun
  /\ nruns = 0

Step(cmd, argv, net, df) ==
  /\ nruns < MaxRuns
  /\ \E r \in {main(fs, argv, net, df)} :
        /\ fs' = r.fs
        /\ run' = [cmd |-> cmd, argv |-> argv, net |-> net,
                   df |-> IF r.calls > 0 THEN df ELSE DfUnused,
                   out |-> r.out, exc |-> r.exc, calls |-> r.calls,
                   tmp |-> TmpOfRun(fs, argv, net)]
  /\ nruns' = nruns + 1

RunNoArgs == Step("noargs", <<S_prog>>, NetUnused, DfUnused)

RunBadArity == \E argv \in BadArityArgvs : Step("badarity", argv, NetUnused, DfUnused)

RunUnknown == \E argv \in UnknownArgvs : Step("unknown", argv, NetUnused, DfUnused)

RunAdd ==
  /\ nruns < MaxRuns
  /\ \E in \in AddInputs :
       \E net \in NetOutcomes(in[2]) :
         Step("add", ArgvAdd(in[1], in[2]), net, DfUnused)

RunFind ==
  /\ nruns < MaxRuns
  /\ \E src \in FindSources :
       \E net \in NetOutcomes(src) :
         \E df \in (IF main(fs, ArgvFind(src), net, DfUnused).calls > 0
                    THEN DfOutcomes(fs) ELSE {DfUnused}) :
           Step("find", ArgvFind(src), net, df)

Next == RunNoArgs \/ RunBadArity \/ RunUnknown \/ RunAdd \/ RunFind

Spec == Init /\ [][Next]_vars

----------------------------------------------------------------------------
TypeOK ==
  /\ nruns \in 0..MaxRuns
  /\ run.exc \in STRING
  /\ \A p \in DOMAIN fs : Len(p) >= 1 /\ IsDir(fs, Parent(p))

----------------------------------------------------------------------------
(* Vocabulary of the properties *)

Printed(r, m) == \E i \in DOMAIN r.out : r.out[i].msg = m

PrintedErr(r, m, e) == \E i \in DOMAIN r.out : r.out[i].msg = m /\ r.out[i].e = e

IsPrefix(p, q) == Len(p) <= Len(q) /\ SubSeq(q, 1, Len(p)) = p

\* the gallery: the root directory "db" and everything below it
Gallery(f) == {p \in DOMAIN f : IsPrefix(DbDir, p)}

GalleryUnchanged(f, g) ==
  /\ Gallery(f) = Gallery(g)
  /\ \A p \in Gallery(f) : f[p] = g[p]

TmpFiles(f) == Children(f, TMPDIR)

\* the file system with the gallery root present
WithRoot(f) == IF DbDir \in DOMAIN f THEN f ELSE Put(f, DbDir, DirNode)

\* files of g that f does not hold with the same content
Written(f, g) ==
  {p \in DOMAIN g : g[p].kind = "file" /\ (p \notin DOMAIN f \/ f[p] # g[p])}

NetFailed(r) == r.net.exc \in {"HTTPError", "ConnectionError", "Timeout"}

\* the directory of identity name, where the kernel finds it
IdentityDir(f, name) == Resolve(f, DB_PATH \o S_slash \o name).path

----------------------------------------------------------------------------
(* C1 *)

\* C1: when the resolver was given a URL and the download succeeded, the
\* temporary file it created does not exist once the add or find has ended,
\* however the with-block was left.
C1_TempFileReleased ==
  run.tmp.some => ~OsExists(fs, run.tmp.val)

----------------------------------------------------------------------------
(* C2 *)

C2_Step(f, r, g) ==
  (r.cmd = "add" /\ IsUrl(r.argv[4]) /\ Printed(r, "added")) =>
    LET I == r.argv[3]
        dir == IdentityDir(g, I)
        N == Cardinality(Children(f, dir))
        sfx == PathSuffix(ParsePath(r.argv[4]))
        ext == IF sfx = <<>> THEN S_jpg ELSE sfx
        created == I \o <<"_">> \o Dec(N + 1) \o ext
    IN /\ IsFile(g, Append(dir, created))
       /\ \A p \in Children(f, dir) : p \in DOMAIN g /\ g[p] = f[p]

\* C2: a successful remote-sourced add for identity I whose directory holds
\* N entries creates I_{N+1}<ext>, and every file already in the directory
\* keeps its name and content.
C2_RemoteAddFreshName == [][C2_Step(fs, run', fs')]_vars

----------------------------------------------------------------------------
(* C3 *)

RootEmpty(f) == Children(f, DbDir) = {}

Acquired(f, r) ==
  IF IsUrl(r.argv[3]) THEN r.net.exc = "none" ELSE OsExists(f, r.argv[3])

C3_OrigStep(f, r) ==
  (r.cmd = "find" /\ RootEmpty(f)) =>
    Printed(r, "db_empty") /\ r.calls = 0

\* C3 as stated: find on an empty gallery root always reports the
\* empty-database error and never calls DeepFace.find.
C3_AlwaysEmptyDatabaseError == [][C3_OrigStep(fs, run')]_vars

C3_AmendedStep(f, r) ==
  (r.cmd = "find" /\ RootEmpty(f)) =>
    /\ r.calls = 0
    /\ r.exc = "none"
    /\ Acquired(f, r) <=> Printed(r, "db_empty")
    /\ ~Acquired(f, r) =>
         IF IsUrl(r.argv[3]) THEN Printed(r, "download_error")
         ELSE Printed(r, "image_not_found")

\* C3 amended: find on an empty gallery root never calls DeepFace.find; it
\* reports the empty-database error exactly when the query image was
\* acquired, and the acquisition error otherwise.
C3_EmptyGalleryNeverSearched == [][C3_AmendedStep(fs, run')]_vars

C3_Witness ==
  /\ run.cmd = "find" /\ run.tmp.some
  /\ RootEmpty(fs)
  /\ Printed(run, "db_empty") /\ run.calls = 0

----------------------------------------------------------------------------
(* C4 *)

NoOperation(r) == r.cmd \in {"noargs", "badarity", "unknown"}

UsagePrinted(r) ==
  /\ r.exc = "none"
  /\ r.cmd = "noargs" => r.out = <<M0("usage")>>
  /\ r.cmd = "badarity" =>
       r.out \in {<<M0("usage_add")>>, <<M0("usage_find")>>}
  /\ r.cmd = "unknown" => Printed(r, "unknown_command")

\* C4 as stated: a run with no arguments, a wrong argument count or an
\* unknown command prints the usage text and leaves the file system as it
\* was.
C4_NoFilesystemMutation ==
  [][NoOperation(run') => (UsagePrinted(run') /\ fs' = fs)]_vars

----------------------------------------------------------------------------
(* C5 *)

\* C5: every run of main returns normally; no exception leaves main.
C5_NoExceptionLeavesMain == run.exc = "none"

----------------------------------------------------------------------------
(* C6 *)

C6_Step(f, r, g) ==
  (r.cmd \in {"add", "find"} /\ NetFailed(r)) =>
    /\ ~get_image_path_enter(WithRoot(f), r.argv[Len(r.argv)], r.net).local.some
    /\ PrintedErr(r, "download_error", r.net.exc)
    /\ ~Printed(r, "added")
    /\ r.exc = "none"
    /\ r.calls = 0
    /\ GalleryUnchanged(WithRoot(f), g)
    /\ TmpFiles(g) = TmpFiles(f)
    /\ ~r.tmp.some

\* C6: when the remote fetch fails, the resolver yields the no-image
\* sentinel, a download error is printed, the operation returns without
\* creating an identity directory or gallery file and without calling the
\* collaborator, and it leaves no temporary file.
C6_FailedFetchLeavesNothing == [][C6_Step(fs, run', fs')]_vars

C6_Witness ==
  /\ run.cmd = "add" /\ run.net.exc = "HTTPError"
  /\ PrintedErr(run, "download_error", "HTTPError")
  /\ run.exc = "none"

----------------------------------------------------------------------------
(* C7 *)

C7_Step(f, r, g) ==
  r.cmd = "add" =>
    \A p \in Written(f, g) :
      IsPrefix(TMPDIR, p)
        \/ (/\ Len(p) = Len(DbDir) + 2
            /\ IsPrefix(DbDir, p)
            /\ p[Len(DbDir) + 1] = r.argv[3])

\* C7: every gallery file an add writes lies directly inside the
\* subdirectory of the gallery root that is named like the identity.
C7_FilesInsideIdentityDir == [][C7_Step(fs, run', fs')]_vars

----------------------------------------------------------------------------
(* C8 *)

C8_Step(f, r, g) ==
  (r.cmd = "add" /\ ~IsUrl(r.argv[4]) /\ Printed(r, "added")) =>
    LET base == Basename(r.argv[4])
        src == Resolve(f, r.argv[4]).path
        dir == IdentityDir(g, r.argv[3])
        dest == Append(dir, base)
    IN /\ r.out = <<Msg("added", base, r.argv[3], 0, "-")>>
       /\ \A p \in Written(f, g) : p[Len(p)] = base /\ g[p] = f[src]
       /\ IsFile(g, dest) => Written(f, g) \subseteq {dest}
       /\ IsFile(f, dest) =>
            /\ g[dest] = f[src]
            /\ Children(g, dir) = Children(WithRoot(f), dir)
            /\ Cardinality({p \in Children(g, dir) : p[Len(p)] = base}) = 1

\* C8: a successful local-file add stores the file under the base name of
\* the source path; a file of that name already in the identity's directory
\* is replaced by the new content and the directory gains no entry.
C8_LocalAddKeepsBaseName == [][C8_Step(fs, run', fs')]_vars

\* the first run from the used gallery, where db/a/p.j held other content
C8_Witness ==
  /\ nruns = 1 /\ IsFile(fs, <<S_w, S_db, F_pj>>)
  /\ run.argv = ArgvAdd(N_a, F_o_pj) /\ Printed(run, "added")
  /\ fs[<<S_w, S_db, N_a, F_pj>>] = FileNode("c2")
  /\ Cardinality(Children(fs, <<S_w, S_db, N_a>>)) = 1

----------------------------------------------------------------------------
(* C9 *)

MatchesPrinted(r) == SelectSeq(r.out, LAMBDA m : m.msg = "match")

\* the name of the directory that holds the image: the component before
\* the last of the row's path
ParentDirName(identity) ==
  LET c == Split(identity) IN IF Len(c) < 2 THEN <<>> ELSE c[Len(c) - 1]

\* n/10000 is within half a unit of the last printed digit of distance/1024
Rounds(n, distance) ==
  /\ 1024 * n - 10000 * distance <= 512
  /\ 10000 * distance - 1024 * n <= 512

FirstTable(r) == IF Len(r.df.results) = 0 THEN <<>> ELSE r.df.results[1]

\* C9: when DeepFace.find returns normally, exactly the rows of the first
\* table are printed, one (identity, distance) pair per row, the identity
\* being the name of the directory holding the row's image, best match
\* first; without a table, or with an empty first table, the no-matches
\* message is printed.
C9_PrintsFirstTable ==
  (run.cmd = "find" /\ run.calls = 1 /\ run.df.exc = "none") =>
    LET t == FirstTable(run)
        ms == MatchesPrinted(run)
    IN /\ Len(ms) = Len(t)
       /\ \A i \in 1..Len(t) :
            /\ ms[i].s1 = ParentDirName(t[i].identity)
            /\ Rounds(ms[i].n, t[i].distance)
       /\ \A i \in 1..(Len(ms) - 1) : ms[i].n <= ms[i + 1].n
       /\ (t = <<>>) <=> Printed(run, "no_matches")
       /\ (t # <<>>) <=>
            \E i \in DOMAIN run.out :
              run.out[i] = Msg("found", <<>>, <<>>, Len(t), "-")
       /\ run.exc = "none"

C9_Witness ==
  /\ run.cmd = "find" /\ run.calls = 1 /\ run.df.exc = "none"
  /\ Len(FirstTable(run)) = 2
  /\ Fmt4(FirstTable(run)[1].distance) < Fmt4(FirstTable(run)[2].distance)
  /\ FirstTable(run)[1].identity # FirstTable(run)[2].identity
  /\ Len(MatchesPrinted(run)) = 2

----------------------------------------------------------------------------
(* C10 *)

CollaboratorRaised(r) == r.cmd = "find" /\ r.calls = 1 /\ r.df.exc = "ValueError"

\* the representations file of the collaborator, in the gallery root
CacheFile == Append(DbDir, S_pkl)

\* the file system without the representations file
Uncached(f) == IF CacheFile \in DOMAIN f THEN Remove(f, CacheFile) ELSE f

C10_OrigStep(f, r, g) ==
  CollaboratorRaised(r) =>
    /\ PrintedErr(r, "search_error", "ValueError")
    /\ r.exc = "none"
    /\ GalleryUnchanged(f, g)
    /\ r.tmp.some => ~OsExists(g, r.tmp.val)
    /\ TmpFiles(g) = TmpFiles(f)

\* C10 as stated: an exception of the collaborator is caught and reported,
\* find returns normally, the gallery is unchanged, and a downloaded query
\* image is deleted.
C10_CollaboratorErrorContained == [][C10_OrigStep(fs, run', fs')]_vars

C10_AmendedStep(f, r, g) ==
  CollaboratorRaised(r) =>
    /\ PrintedErr(r, "search_error", "ValueError")
    /\ r.exc = "none"
    /\ Uncached(g) = Uncached(f)
    /\ ~r.df.cache => g = f
    /\ r.tmp.some => ~OsExists(g, r.tmp.val)
    /\ TmpFiles(g) = TmpFiles(f)

\* C10, amended: an exception of the collaborator is caught and reported,
\* find returns normally, a downloaded query image is deleted, and the file
\* system is as it was before the run (every identity directory and every
\* reference image included) except for the representations file that the
\* collaborator itself may have written into the gallery root.
C10_CollaboratorErrorContainedButCache == [][C10_AmendedStep(fs, run', fs')]_vars

C10_Witness ==
  /\ CollaboratorRaised(run)
  /\ run.tmp.some
  /\ run.df.cache
  /\ IsFile(fs, CacheFile)
  /\ PrintedErr(run, "search_error", "ValueError")

====
